---------------------------- MODULE Spec2Model ----------------------------
(***************************************************************************)
(* A model of the dump-transformation pipeline of wp-import               *)
(* (lib/wp_import/utils.py and lib/wp_import/postgresql.py) and of the    *)
(* importer that feeds its statements to psql (lib/wp_import/importer.py).*)
(*                                                                         *)
(* Texts (Python str and unicode values) are sequences of characters; a   *)
(* character is a one-character string.  A byte above 0x7F is spelled by  *)
(* its hexadecimal value ("xC3"), the character decoded from a multi-byte *)
(* UTF-8 sequence by the concatenation of the spellings of its bytes      *)
(* ("xC3xA5"), and U+FFFD by "uFFFD".  The backtick is spelled "x60".     *)
(***************************************************************************)
EXTENDS Integers, Sequences, FiniteSets, TLC

VARIABLES
    file_path,    \* the path handed to insert_statements
    file_exists,  \* whether the file at file_path can be opened
    file_lines,   \* the lines of that file, each with its line end
    handle,       \* the file object of open_compressed: "unopened", "open", "closed"
    pos,          \* number of lines the pipeline has read from the file object
    gen,          \* the insert_statements generator: "created", "suspended",
                  \*   "exhausted", "raised", "closed"
    raised,       \* the exception the consumer observed from the generator, or "none"
    pipeline,     \* the pipeline insert_statements selected, or "none"
    out,          \* the statements yielded so far: records [stmt, src]
    log,          \* the warnings logged so far: records [msg, row, encoding]
    fn,           \* the function a single call is made to, or "none"
    fn_arg,       \* the argument of that call
    fn_ret,       \* its result once it returned
    fn_pc,        \* "ready", "returned"
    paths,        \* the paths import_dumps is called with
    reimport,     \* options.reimport
    enabled_languages,  \* the languages the configuration enables
    db,           \* the databases of the server, by name
    todo,         \* the dump files import_dumps has still to process, in order
    processed,    \* the dump files import_dumps has handed to _import_sql_dump
    dump,         \* the dump_info of the running _import_sql_dump
    imp_pc,       \* where import_dumps and _import_sql_dump stand
    opened,       \* whether the file of dump has been opened
    piped,        \* the number of statements of dump written to psql
    returncode,   \* the return code of the psql process of dump, 0 before it exits
    imp_raised    \* the exception that left import_dumps, or "none"

vars == <<file_path, file_exists, file_lines, handle, pos, gen, raised, pipeline, out, log,
          fn, fn_arg, fn_ret, fn_pc,
          paths, reimport, enabled_languages, db, todo, processed, dump, imp_pc,
          opened, piped, returncode, imp_raised>>

iter_vars == <<file_path, file_exists, file_lines, handle, pos, gen, raised, pipeline, out, log>>
call_vars == <<fn, fn_arg, fn_ret, fn_pc>>
imp_vars  == <<paths, reimport, enabled_languages, db, todo, processed, dump, imp_pc,
               opened, piped, returncode, imp_raised>>

---------------------------------------------------------------------------
(* Texts *)

RECURSIVE Join(_, _)
Join(sep, ss) ==
    IF ss = <<>> THEN <<>>
    ELSE IF Len(ss) = 1 THEN ss[1]
    ELSE ss[1] \o sep \o Join(sep, Tail(ss))

StartsWith(s, p) == Len(s) >= Len(p) /\ SubSeq(s, 1, Len(p)) = p

EndsWith(s, p) == Len(s) >= Len(p) /\ SubSeq(s, Len(s) - Len(p) + 1, Len(s)) = p

Drop(s, n) == SubSeq(s, n + 1, Len(s))

Contains(s, p) == \E i \in 0..(Len(s) - Len(p)) : SubSeq(s, i + 1, i + Len(p)) = p

Digits == {"0", "1", "2", "3", "4", "5", "6", "7", "8", "9"}

LowerCase == <<"a", "b", "c", "d", "e", "f", "g", "h", "i", "j", "k", "l", "m",
               "n", "o", "p", "q", "r", "s", "t", "u", "v", "w", "x", "y", "z">>

UpperCase == <<"A", "B", "C", "D", "E", "F", "G", "H", "I", "J", "K", "L", "M",
               "N", "O", "P", "Q", "R", "S", "T", "U", "V", "W", "X", "Y", "Z">>

Range(f) == {f[i] : i \in DOMAIN f}

\* re's \w without re.UNICODE or re.LOCALE: [a-zA-Z0-9_]
IsWord(c) == c \in Range(LowerCase) \cup Range(UpperCase) \cup Digits \cup {"_"}

\* re's \s: [ \t\n\r\f\v]
IsSpace(c) == c \in {" ", "\t", "\n", "\r", "\f"}

\* re.IGNORECASE compares characters by their lower-case form
Lower(c) ==
    IF \E i \in DOMAIN UpperCase : UpperCase[i] = c
    THEN LowerCase[CHOOSE i \in DOMAIN UpperCase : UpperCase[i] = c]
    ELSE c

---------------------------------------------------------------------------
(* str.decode('utf8') of Python 2 on the bytes of the model *)

Lead2 == {"xC3"}          \* 0xC2..0xDF: the first byte of a two-byte sequence
Lead3 == {"xE5"}          \* 0xE1..0xEC: the first byte of a three-byte sequence
Cont  == {"xA5"}          \* 0x80..0xBF: a continuation byte
HighBytes == Lead2 \cup Lead3 \cup Cont

ReplacementChar == "uFFFD"

\* The number of bytes of the well-formed sequence that starts bs, 0 when
\* bs starts with an ill-formed one.
SeqLen(bs) ==
    IF Head(bs) \notin HighBytes THEN 1
    ELSE IF Head(bs) \in Lead2 /\ Len(bs) >= 2 /\ bs[2] \in Cont THEN 2
    ELSE IF Head(bs) \in Lead3 /\ Len(bs) >= 3 /\ bs[2] \in Cont /\ bs[3] \in Cont THEN 3
    ELSE 0

\* The bytes of an ill-formed sequence that one U+FFFD stands for.
BadLen(bs) ==
    IF Head(bs) \in Lead3 /\ Len(bs) >= 2 /\ bs[2] \in Cont THEN 2 ELSE 1

CharOf(bs, n) == IF n = 1 THEN bs[1] ELSE IF n = 2 THEN bs[1] \o bs[2]
                 ELSE bs[1] \o bs[2] \o bs[3]

RECURSIVE Decodable(_)
Decodable(bs) ==
    IF bs = <<>> THEN TRUE
    ELSE SeqLen(bs) > 0 /\ Decodable(Drop(bs, SeqLen(bs)))

\* el.decode(encoding, 'replace'); equal to el.decode(encoding) when that
\* does not raise UnicodeDecodeError, which is when Decodable(bs).
RECURSIVE DecodeReplace(_)
DecodeReplace(bs) ==
    IF bs = <<>> THEN <<>>
    ELSE IF SeqLen(bs) > 0
         THEN <<CharOf(bs, SeqLen(bs))>> \o DecodeReplace(Drop(bs, SeqLen(bs)))
         ELSE <<ReplacementChar>> \o DecodeReplace(Drop(bs, BadLen(bs)))

Decode(bs) == DecodeReplace(bs)

Encoding == "utf8"

---------------------------------------------------------------------------
(* utils.py *)

INSERT == <<"I", "N", "S", "E", "R", "T">>
INTO   == <<"I", "N", "T", "O">>
VALUES == <<"V", "A", "L", "U", "E", "S">>

BQ == "x60"     \* the backtick, which a TLA+ string cannot hold
DQ == "\""      \* the double quote

Quotes == {BQ, DQ}

LowerText(s) == [i \in DOMAIN s |-> Lower(s[i])]

\* filter_match without the anchor: the pattern found anywhere in the text
filter_match_unanchored(element) == Contains(element, INSERT)

\* patc.search(element) of filter_strings(r'^INSERT', seq): ^ matches at the
\* start of the text only, so the pattern is found in the texts that start
\* with INSERT.
filter_match(element) == StartsWith(element, INSERT)

\* filter_strings(r'^INSERT', seq)
RECURSIVE filter_strings(_)
filter_strings(seq) ==
    IF seq = <<>> THEN <<>>
    ELSE (IF filter_match(Head(seq)) THEN <<Head(seq)>> ELSE <<>>)
         \o filter_strings(Tail(seq))

\* The length of the longest run of [\w-] characters of s that starts at i.
RECURSIVE WordRun(_, _)
WordRun(s, i) ==
    IF i <= Len(s) /\ (IsWord(s[i]) \/ s[i] = "-") THEN 1 + WordRun(s, i + 1) ELSE 0

\* table_name_pat.match(el):
\*   ^INSERT\sINTO\s(?P<quote>[x60"])(?P<table>[\w-]+)(?P=quote), re.IGNORECASE
\* None when the pattern does not match, else the groups.
None == [matched |-> FALSE]

table_name_pat(el) ==
    LET n == WordRun(el, 14) IN
    IF /\ Len(el) >= 15
       /\ LowerText(SubSeq(el, 1, 6)) = LowerText(INSERT)
       /\ IsSpace(el[7])
       /\ LowerText(SubSeq(el, 8, 11)) = LowerText(INTO)
       /\ IsSpace(el[12])
       /\ el[13] \in Quotes
       /\ n >= 1
       /\ Len(el) >= 14 + n
       /\ el[14 + n] = el[13]
    THEN [matched |-> TRUE, quote |-> el[13], table |-> SubSeq(el, 14, 13 + n)]
    ELSE None

\* The length of the match of ^INSERT\sINTO\s[x60"][\w-]+[x60"]\sVALUES\s at the
\* start of s, 0 when it does not match.
HeaderLen(s) ==
    LET n == WordRun(s, 14) IN
    IF /\ Len(s) >= 22 + n
       /\ SubSeq(s, 1, 6) = INSERT
       /\ IsSpace(s[7])
       /\ SubSeq(s, 8, 11) = INTO
       /\ IsSpace(s[12])
       /\ s[13] \in Quotes
       /\ n >= 1
       /\ s[14 + n] \in Quotes
       /\ IsSpace(s[15 + n])
       /\ SubSeq(s, 16 + n, 21 + n) = VALUES
       /\ IsSpace(s[22 + n])
    THEN 22 + n
    ELSE 0

\* re.sub(b';$', b'', s): $ matches at the end and before a newline that
\* ends the text.
StripSemicolon(s) ==
    IF EndsWith(s, <<";">>) THEN SubSeq(s, 1, Len(s) - 1)
    ELSE IF EndsWith(s, <<";", "\n">>) THEN SubSeq(s, 1, Len(s) - 2) \o <<"\n">>
    ELSE s

\* s.replace(old, new)
RECURSIVE Replace(_, _, _)
Replace(s, old, new) ==
    IF Len(s) < Len(old) THEN s
    ELSE IF StartsWith(s, old) THEN new \o Replace(Drop(s, Len(old)), old, new)
    ELSE <<Head(s)>> \o Replace(Tail(s), old, new)

\* s.split(sep) for a separator of one character
RECURSIVE SplitFrom(_, _, _)
SplitFrom(s, sep, cur) ==
    IF s = <<>> THEN <<cur>>
    ELSE IF Head(s) = sep THEN <<cur>> \o SplitFrom(Tail(s), sep, <<>>)
    ELSE SplitFrom(Tail(s), sep, Append(cur, Head(s)))

Split(s, sep) == SplitFrom(s, sep, <<>>)

\* row_pat.match(el) is not None, for row_pat ^\(.+\)$
row_pat(el) ==
    LET body == IF EndsWith(el, <<"\n">>) THEN SubSeq(el, 1, Len(el) - 1) ELSE el IN
    /\ Len(body) >= 3
    /\ body[1] = "("
    /\ body[Len(body)] = ")"
    /\ \A i \in 2..(Len(body) - 1) : body[i] # "\n"

RECURSIVE SelectRows(_)
SelectRows(rows) ==
    IF rows = <<>> THEN <<>>
    ELSE (IF row_pat(Head(rows)) THEN <<Head(rows)>> ELSE <<>>) \o SelectRows(Tail(rows))

\* The candidate rows of single_rows, before row_pat filters them.
SplitRows(multirow_insert) ==
    LET noHeader == Drop(multirow_insert, HeaderLen(multirow_insert))
        noSemi   == StripSemicolon(noHeader)
        marked   == Replace(noSemi, <<")", ",", "(">>, <<")", "\n", "(">>)
    IN  Split(marked, "\n")

single_rows(multirow_insert) == SelectRows(SplitRows(multirow_insert))

Warning(el) == [msg |-> "Dropped", row |-> DecodeReplace(el), encoding |-> Encoding]

\* convert_to_unicode with break for continue: the first element that does
\* not decode ends the sequence
RECURSIVE convert_to_unicode_break(_)
convert_to_unicode_break(seq) ==
    IF seq = <<>> THEN [yields |-> <<>>, logs |-> <<>>]
    ELSE IF Decodable(Head(seq))
         THEN LET rest == convert_to_unicode_break(Tail(seq)) IN
              [yields |-> <<Decode(Head(seq))>> \o rest.yields, logs |-> rest.logs]
         ELSE [yields |-> <<>>, logs |-> <<Warning(Head(seq))>>]

\* convert_to_unicode(seq, encoding): what it yields and what it logs
RECURSIVE convert_to_unicode(_)
convert_to_unicode(seq) ==
    IF seq = <<>> THEN [yields |-> <<>>, logs |-> <<>>]
    ELSE LET rest == convert_to_unicode(Tail(seq)) IN
         IF Decodable(Head(seq))
         THEN [yields |-> <<Decode(Head(seq))>> \o rest.yields, logs |-> rest.logs]
         ELSE [yields |-> rest.yields, logs |-> <<Warning(Head(seq))>> \o rest.logs]

SalvageWarning == [msg |-> "Decoding error: Decode single rows", row |-> <<>>,
                   encoding |-> Encoding]

\* 'INSERT INTO {0}{1}{0} VALUES {2};'.format(quote, table, ','.join(rows))
Statement(quote, table, rows) ==
    INSERT \o <<" ">> \o INTO \o <<" ", quote>> \o table \o <<quote, " ">>
    \o VALUES \o <<" ">> \o Join(<<",">>, rows) \o <<";">>

\* One turn of the loop of convert_multirow_to_unicode on el: the statement
\* it yields or the exception it raises, and what it logs on the way.
convert_multirow_element(el) ==
    IF Decodable(el)
    THEN [kind |-> "yield", stmt |-> Decode(el), logs |-> <<>>]
    ELSE LET mat  == table_name_pat(el)
             rows == convert_to_unicode(single_rows(el))
         IN  IF ~mat.matched
             THEN \* None.groupdict()
                  [kind |-> "raise", stmt |-> <<>>, logs |-> <<SalvageWarning>>]
             ELSE [kind |-> "yield",
                   stmt |-> Statement(mat.quote, mat.table, rows.yields),
                   logs |-> <<SalvageWarning>> \o rows.logs]

\* convert_multirow_to_unicode(seq, encoding), consumed to its end: what it
\* yields and logs, and the exception that ends it ("none" when it returns).
RECURSIVE convert_multirow_to_unicode(_)
convert_multirow_to_unicode(seq) ==
    IF seq = <<>> THEN [yields |-> <<>>, logs |-> <<>>, raised |-> "none"]
    ELSE LET r == convert_multirow_element(Head(seq)) IN
         IF r.kind = "raise"
         THEN [yields |-> <<>>, logs |-> r.logs, raised |-> "AttributeError"]
         ELSE LET rest == convert_multirow_to_unicode(Tail(seq)) IN
              [yields |-> <<r.stmt>> \o rest.yields,
               logs   |-> r.logs \o rest.logs,
               raised |-> rest.raised]

\* The characters of the paths of the model in the order of their codes,
\* which is the order cmp and sorted compare texts by
CodeOrder == <<"-", ".", "/">>
             \o <<"0", "1", "2", "3", "4", "5", "6", "7", "8", "9">>
             \o UpperCase \o <<"_">> \o LowerCase

Ord(c) == CHOOSE i \in DOMAIN CodeOrder : CodeOrder[i] = c

\* cmp(a, b) < 0
RECURSIVE TextLess(_, _)
TextLess(a, b) ==
    IF b = <<>> THEN FALSE
    ELSE IF a = <<>> THEN TRUE
    ELSE IF Head(a) = Head(b) THEN TextLess(Tail(a), Tail(b))
    ELSE Ord(Head(a)) < Ord(Head(b))

\* sorted(set) of a set of texts
RECURSIVE Sorted(_)
Sorted(S) ==
    IF S = {} THEN <<>>
    ELSE LET least == CHOOSE x \in S : \A y \in S \ {x} : TextLess(x, y)
         IN  <<least>> \o Sorted(S \ {least})

\* The file a path names: the path without the ./ in front of it and the
\* slash at its end.
RECURSIVE resolve(_)
resolve(path) ==
    IF StartsWith(path, <<".", "/">>) THEN resolve(Drop(path, 2))
    ELSE IF EndsWith(path, <<"/">>) THEN resolve(SubSeq(path, 1, Len(path) - 1))
    ELSE path

\* os.path.join(path, name)
os_path_join(path, name) ==
    IF EndsWith(path, <<"/">>) THEN path \o name ELSE path \o <<"/">> \o name

\* os.path.basename(path): what follows the last slash
RECURSIVE os_path_basename(_)
os_path_basename(path) ==
    IF \E i \in DOMAIN path : path[i] = "/"
    THEN os_path_basename(Tail(path))
    ELSE path

\* file_paths(root) on a disk that holds the files disk: root when it names
\* a file, else os.path.join(path, name) for every file os.walk(root) finds,
\* in the spelling of root. dump_file_paths makes a set of what file_paths
\* yields, so that the order of os.walk does not show.
file_paths(disk, root) ==
    IF resolve(root) \in disk THEN {root}
    ELSE {os_path_join(root, Drop(f, Len(resolve(root)) + 1)) :
             f \in {g \in disk : StartsWith(g, resolve(root) \o <<"/">>)}}

WIKI == <<"w", "i", "k", "i", "-">>

\* fn_pat.match(name) for the pattern
\*   (?P<language>\w+)wiki-(?P<date>\d{8})-(?P<table>[\w_-]+).*
\* None when the pattern does not match, else the groups: \w+ is as long as
\* the rest of the pattern allows, [\w_-]+ as long as it can be.
fn_pat(name) ==
    LET ends == {i \in 1..Len(name) :
                    /\ \A j \in 1..i : IsWord(name[j])
                    /\ Len(name) >= i + 15
                    /\ SubSeq(name, i + 1, i + 5) = WIKI
                    /\ \A j \in (i + 6)..(i + 13) : name[j] \in Digits
                    /\ name[i + 14] = "-"
                    /\ WordRun(name, i + 15) >= 1}
    IN  IF ends = {} THEN None
        ELSE LET i == CHOOSE e \in ends : \A o \in ends : o <= e IN
             [matched  |-> TRUE,
              language |-> SubSeq(name, 1, i),
              date     |-> SubSeq(name, i + 6, i + 13),
              table    |-> SubSeq(name, i + 15, i + 14 + WordRun(name, i + 15))]

\* dump_file_paths(fn_regex, *paths) on a disk that holds the files disk
dump_file_paths(disk, search_paths) ==
    LET found == UNION {file_paths(disk, search_paths[i]) : i \in DOMAIN search_paths} IN
    Sorted({path \in found : fn_pat(os_path_basename(path)).matched})

---------------------------------------------------------------------------
(* postgresql.py *)

\* el.strip()
RECURSIVE LStrip(_)
LStrip(s) == IF s # <<>> /\ IsSpace(Head(s)) THEN LStrip(Tail(s)) ELSE s

RECURSIVE RStrip(_)
RStrip(s) ==
    IF s # <<>> /\ IsSpace(s[Len(s)]) THEN RStrip(SubSeq(s, 1, Len(s) - 1)) ELSE s

Strip(s) == RStrip(LStrip(s))

\* quote_element replacing the first backtick only: el.replace(old, new, 1)
quote_element_first_only(el) ==
    IF \E i \in DOMAIN el : el[i] = BQ
    THEN LET i == CHOOSE i \in DOMAIN el : el[i] = BQ /\ \A j \in 1..(i - 1) : el[j] # BQ
         IN  [el EXCEPT ![i] = DQ]
    ELSE el

\* el.replace('`', '"') of psql_quotation
quote_element(el) == Replace(el, <<BQ>>, <<DQ>>)

psql_quotation(seq) == [i \in DOMAIN seq |-> quote_element(seq[i])]

\* timestamp_pat:
\*   ([,)])(\d\d\d\d)([0,1]\d)([0-3]\d)([0-5]\d)([0-5]\d)([0-5]\d)([,)])
\* The classes of the sixteen characters of a match, in order.
TsDelim == {",", ")"}

TsClasses ==
    <<TsDelim,
      Digits, Digits, Digits, Digits,
      {"0", ",", "1"}, Digits,
      {"0", "1", "2", "3"}, Digits,
      {"0", "1", "2", "3", "4", "5"}, Digits,
      {"0", "1", "2", "3", "4", "5"}, Digits,
      {"0", "1", "2", "3", "4", "5"}, Digits,
      TsDelim>>

\* Whether timestamp_pat matches at the start of s.
timestamp_pat(s) ==
    /\ Len(s) >= Len(TsClasses)
    /\ \A i \in DOMAIN TsClasses : s[i] \in TsClasses[i]

\* TsReplacement with the day before the month: r"\1'\2-\4-\3T\5:\6:\7Z'\8"
TsReplacementDayFirst(m) ==
    <<m[1], "'">> \o SubSeq(m, 2, 5) \o <<"-">> \o SubSeq(m, 8, 9) \o <<"-">>
    \o SubSeq(m, 6, 7) \o <<"T">> \o SubSeq(m, 10, 11) \o <<":">>
    \o SubSeq(m, 12, 13) \o <<":">> \o SubSeq(m, 14, 15) \o <<"Z", "'", m[16]>>

\* The expansion of r"\1'\2-\3-\4T\5:\6:\7Z'\8" for the match m.
TsReplacement(m) ==
    <<m[1], "'">> \o SubSeq(m, 2, 5) \o <<"-">> \o SubSeq(m, 6, 7) \o <<"-">>
    \o SubSeq(m, 8, 9) \o <<"T">> \o SubSeq(m, 10, 11) \o <<":">>
    \o SubSeq(m, 12, 13) \o <<":">> \o SubSeq(m, 14, 15) \o <<"Z", "'", m[16]>>

\* timestamp_pat.sub(repl, el): the matches are found from the left and do
\* not overlap.
RECURSIVE timestamp_sub(_)
timestamp_sub(el) ==
    IF el = <<>> THEN <<>>
    ELSE IF timestamp_pat(el)
         THEN TsReplacement(SubSeq(el, 1, 16)) \o timestamp_sub(Drop(el, 16))
         ELSE <<Head(el)>> \o timestamp_sub(Tail(el))

timestamp_to_iso_8601(seq) == [i \in DOMAIN seq |-> timestamp_sub(seq[i])]

\* os.path.basename(file_path): what follows the last slash
RECURSIVE basename(_)
basename(path) ==
    IF \E i \in DOMAIN path : path[i] = "/"
    THEN basename(Tail(path))
    ELSE path

CATEGORYLINKS == <<"c", "a", "t", "e", "g", "o", "r", "y", "l", "i", "n", "k", "s">>

\* select_pipeline matching the whole path: fnmatch.fnmatch(file_path, ...)
select_pipeline_whole_path(path) ==
    IF Contains(path, CATEGORYLINKS) THEN "categorylinks" ELSE "generic"

\* The pipeline insert_statements passes the file through:
\* fnmatch.fnmatch(os.path.basename(file_path), '*categorylinks*')
select_pipeline(path) ==
    IF Contains(basename(path), CATEGORYLINKS) THEN "categorylinks" ELSE "generic"

\* What the stages of generic_pipeline after the decode stage make of a
\* statement: (el.strip() for el in seq), then psql_quotation.
generic_stages(stmt) == quote_element(Strip(stmt))

\* What the selected pipeline makes of a decoded statement.
pipeline_stages(pl, stmt) ==
    IF pl = "categorylinks" THEN timestamp_sub(generic_stages(stmt))
    ELSE generic_stages(stmt)

\* The columns of a line of pgpass, in the order of colnames
colnames == <<"host", "port", "database", "user", "password">>

Column(name) == CHOOSE i \in DOMAIN colnames : colnames[i] = name

\* One element of _parse_pgpass(path): dict(zip(colnames, line.strip().split(':'))),
\* the values of the columns the line has, at most five.
parse_pgpass_line(line) ==
    LET t == Split(Strip(line), ":")
        n == IF Len(t) < Len(colnames) THEN Len(t) ELSE Len(colnames)
    IN  SubSeq(t, 1, n)

POSTGRES == <<"p", "o", "s", "t", "g", "r", "e", "s">>
STAR == <<"*">>

\* The lambda of password_from_pgpass on the dictionary d, every key present
credentials_match(options, d) ==
    /\ (d[Column("user")] = options.pg_user \/ d[Column("user")] = STAR)
    /\ (d[Column("host")] = options.pg_host \/ d[Column("host")] = STAR)
    /\ (d[Column("port")] = options.pg_port \/ d[Column("port")] = STAR)
    /\ (d[Column("database")] = POSTGRES \/ d[Column("database")] = STAR)

\* password_from_pgpass(options) on the lines of options.pg_passfile:
\* next() of the entries the lambda lets through, then its password. The
\* lambda reads d['user'] first, which a line of fewer than four columns
\* does not have.
RECURSIVE password_from_pgpass(_, _)
password_from_pgpass(options, lines) ==
    IF lines = <<>> THEN [kind |-> "raise", value |-> "StopIteration"]
    ELSE LET d == parse_pgpass_line(Head(lines)) IN
         IF Len(d) < Column("user") THEN [kind |-> "raise", value |-> "KeyError"]
         ELSE IF credentials_match(options, d)
              THEN IF Len(d) < Column("password")
                   THEN [kind |-> "raise", value |-> "KeyError"]
                   ELSE [kind |-> "return", value |-> d[Column("password")]]
              ELSE password_from_pgpass(options, Tail(lines))

---------------------------------------------------------------------------
(* The files and texts the model is run on *)

MaxLines == 3       \* the most lines a dump file has

SP == <<" ">>
LF == <<"\n">>

\* INSERT INTO <q1><table><q2> VALUES <rows>;<eol>
MultirowInsert(q1, table, q2, rows, eol) ==
    INSERT \o SP \o INTO \o SP \o <<q1>> \o table \o <<q2>> \o SP \o VALUES \o SP
    \o Join(<<",">>, rows) \o <<";">> \o eol

RowOne      == <<"(", "1", ")">>                                  \* (1)
RowUtf8     == <<"(", "'", "xC3", "xA5", "'", ")">>               \* ('\xc3\xa5')
RowLatin1   == <<"(", "'", "xE5", "'", ")">>                      \* ('\xe5')
RowStamp    == <<"(", "1", ",", "2", "0", "0", "6", "0", "7", "2", "5",
                 "1", "9", "0", "3", "2", "2", ")">>              \* (1,20060725190322)

LinePlain   == MultirowInsert(BQ, <<"t">>, BQ, <<RowOne>>, LF)
LineSalvage == MultirowInsert(BQ, <<"t">>, BQ, <<RowUtf8, RowLatin1>>, LF)
LineStamp   == MultirowInsert(BQ, <<"c">>, BQ, <<RowStamp>>, LF)
\* a line the decode stage cannot decode and whose table name has no quotes
LineNoQuote == INSERT \o SP \o INTO \o SP \o <<"t">> \o SP \o VALUES \o SP
               \o RowLatin1 \o <<";">> \o LF
\* lines that hold INSERT but do not start with it
LineComment == <<"-", "-", " ">> \o INSERT \o LF
LineLower   == <<"i", "n", "s", "e", "r", "t", " ", "1">> \o LF

LinePool == {LinePlain, LineSalvage, LineStamp, LineNoQuote, LineComment, LineLower}

RECURSIVE SeqsUpTo(_, _)
SeqsUpTo(S, n) ==
    IF n = 0 THEN {<<>>}
    ELSE LET shorter == SeqsUpTo(S, n - 1) IN
         shorter \cup {Append(s, x) : s \in {t \in shorter : Len(t) = n - 1}, x \in S}

DirPool  == {<<>>, <<"d", "/">>, CATEGORYLINKS \o <<"/">>}
BaseCategorylinks == <<"x", "-">> \o CATEGORYLINKS \o <<".", "g", "z">>
BaseRedirect      == <<"r", "e", "d", "i", "r", "e", "c", "t", ".", "g", "z">>
BasePool == {BaseCategorylinks, BaseRedirect}

\* The texts psql_quotation is called on
MaxStmts   == 2     \* the most statements of a sequence
MaxStmtLen == 2     \* the most characters of a statement
QuoteAlphabet == {BQ, DQ, "a"}
QuoteArgs == SeqsUpTo(SeqsUpTo(QuoteAlphabet, MaxStmtLen), MaxStmts)

\* The texts timestamp_to_iso_8601 is called on: one value of fourteen
\* digits between two delimiters, in some context
Two(a, b) == <<a, b>>
Years    == {<<"2", "0", "0", "8">>}
Months   == {Two("0", "1"), Two("0", "2"), Two("1", "2")}
Days     == {Two("0", "1"), Two("1", "8"), Two("3", "1")}
Hours    == {Two("0", "0"), Two("1", "3"), Two("2", "3")}
Minutes  == {Two("0", "0"), Two("5", "7")}
Seconds  == {Two("5", "2"), Two("5", "9")}
\* 20091023000000
StampMidnight == <<"2", "0", "0", "9", "1", "0", "2", "3", "0", "0", "0", "0", "0", "0">>
Stamps   == {y \o mo \o d \o h \o mi \o se :
                y \in Years, mo \in Months, d \in Days,
                h \in Hours, mi \in Minutes, se \in Seconds}
            \cup {StampMidnight}
Openers  == {",", "(", ")"}
Closers  == {",", ")"}
Befores  == {<<>>, <<"(", "1">>}
Afters   == {<<>>, <<" ", "f", "o", "o">>}
StampText(pre, open, stamp, close, post) == pre \o <<open>> \o stamp \o <<close>> \o post
StampArgs == {<<StampText(pre, open, stamp, close, post)>> :
                 pre \in Befores, open \in Openers, stamp \in Stamps,
                 close \in Closers, post \in Afters}

\* Values of fourteen digits that are no date and time
StampMonth99 == <<"2", "0", "0", "8", "9", "9", "1", "8", "1", "3", "5", "7", "5", "2">>
StampHour60  == <<"2", "0", "0", "8", "1", "2", "1", "8", "6", "0", "5", "7", "5", "2">>
OddStamps == {StampMonth99, StampHour60}
\* Values that are not fourteen digits: thirteen digits, and four digits, a
\* comma and nine digits
Digits13     == <<"2", "0", "0", "8", "0", "2", "1", "8", "1", "3", "5", "7", "5">>
DigitsComma  == <<"2", "0", "0", "8", ",", "2", "1", "8", "1", "3", "5", "7", "5", "2">>
NonStamps == {Digits13, DigitsComma}
OddStampArgs == {<<StampText(pre, ",", stamp, close, post)>> :
                    pre \in Befores, stamp \in OddStamps \cup NonStamps,
                    close \in Closers, post \in Afters}

\* Two values of fourteen digits with one comma between them:
\* ,20080218135752,20091023000000)
StampFeb == <<"2", "0", "0", "8", "0", "2", "1", "8", "1", "3", "5", "7", "5", "2">>
PairStamps == {StampFeb, StampMidnight}
StampPair(pre, first, second, close, post) ==
    pre \o <<",">> \o first \o <<",">> \o second \o <<close>> \o post
PairStampArgs == {<<StampPair(pre, first, second, close, post)>> :
                     pre \in Befores, first \in PairStamps, second \in PairStamps,
                     close \in Closers, post \in Afters}

\* The lines single_rows and convert_multirow_to_unicode are called on:
\* multirow INSERT statements of one to MaxRows rows
MaxRows == 2
CRLF == <<"\r", "\n">>
RowParens   == <<"(", "'", "n", " ", "(", "w", ")", "'", ")">>        \* ('n (w)')
RowSplit    == <<"(", "'", "a", ")", ",", "(", "b", "'", ")">>        \* ('a),(b')
RowBadSplit == <<"(", "'", "xE5", ")", ",", "(", "b", "'", ")">>      \* ('\xe5),(b')
RowPool  == {RowOne, RowUtf8, RowLatin1, RowParens, RowSplit, RowBadSplit}
RowSeqs  == SeqsUpTo(RowPool, MaxRows) \ {<<>>}
Tables   == {<<"t">>}
LineEnds == {<<>>, LF, CRLF}
InsertLines == {MultirowInsert(q, t, q, rows, eol) :
                   q \in Quotes, t \in Tables, rows \in RowSeqs, eol \in LineEnds}

\* Lines that do not decode and are not multirow INSERT statements
\* INSERT INTO x60t" VALUES ('\xe5');
LineMixedQuotes == MultirowInsert(BQ, <<"t">>, DQ, <<RowLatin1>>, LF)
\* INSERT INTO x60tx60 SET a='\xe5';
LineNoValues == INSERT \o SP \o INTO \o SP \o <<BQ, "t", BQ>> \o SP
                \o <<"S", "E", "T", " ", "a", "=", "'", "xE5", "'", ";">> \o LF
\* INSERT INTO x60tx60 (a) VALUES ('\xe5'),(1);
LineColumns == INSERT \o SP \o INTO \o SP \o <<BQ, "t", BQ>> \o SP \o <<"(", "a", ")">>
               \o SP \o VALUES \o SP \o RowLatin1 \o <<",">> \o RowOne \o <<";">> \o LF
MalformedLines == {LineNoQuote, LineMixedQuotes, LineNoValues, LineColumns}

\* The sequences convert_multirow_to_unicode is called on: one line, or a
\* line after one that decodes
MultirowArgs == {<<l>> : l \in InsertLines \cup MalformedLines}
                \cup {<<LinePlain, l>> : l \in MalformedLines}

\* The sequences convert_to_unicode is called on
UnicodeArgs == SeqsUpTo(RowPool, MaxRows)

\* The disk dump_file_paths searches and the paths it is given
MaxPaths == 2       \* the most search paths
D20091017 == <<"2", "0", "0", "9", "1", "0", "1", "7">>
D20091023 == <<"2", "0", "0", "9", "1", "0", "2", "3">>
DE == <<"d", "e">>
EN == <<"e", "n">>
REDIRECT == <<"r", "e", "d", "i", "r", "e", "c", "t">>
\* <language>wiki-<date>-<table>.sql.gz
DumpName(language, date, table) ==
    language \o WIKI \o date \o <<"-">> \o table \o <<".", "s", "q", "l", ".", "g", "z">>
DirDe == <<"d", "/", "d", "e">>
DirEn == <<"d", "/", "e", "n">>
FileDeOld  == DirDe \o <<"/">> \o DumpName(DE, D20091017, REDIRECT)
FileDeNew  == DirDe \o <<"/">> \o DumpName(DE, D20091023, REDIRECT)
FileEn     == DirEn \o <<"/">> \o DumpName(EN, D20091017, REDIRECT)
FileReadme == <<"d", "/", "R", "E", "A", "D", "M", "E">>
Disk == {FileDeOld, FileDeNew, FileEn, FileReadme}
\* d, ./d, d/de/, a file by its path in two spellings, a file that does not
\* match, a path that names nothing
SearchPool == {<<"d">>, <<".", "/", "d">>, DirDe \o <<"/">>, FileDeNew,
               <<".", "/">> \o FileDeNew, FileReadme, <<"x">>}
SearchArgs == SeqsUpTo(SearchPool, MaxPaths)

\* The pgpass files password_from_pgpass is called on, for the options of
\* test_password_from_pgpass: user k (KingArthur), host c (Camelot), port 2
MaxEntries == 3     \* the most lines of a pgpass file
PgpassLine(host, port, database, user, password) ==
    host \o <<":">> \o port \o <<":">> \o database \o <<":">> \o user \o <<":">>
    \o password \o LF
Options == [pg_user |-> <<"k">>, pg_host |-> <<"c">>, pg_port |-> <<"2">>]
EntryExact   == PgpassLine(<<"c">>, <<"2">>, POSTGRES, <<"k">>, <<"G">>)
EntryHost    == PgpassLine(<<"c">>, STAR, STAR, STAR, <<"H">>)
EntryGeneric == PgpassLine(STAR, STAR, STAR, STAR, <<"U">>)
EntryOther   == PgpassLine(<<"j">>, <<"2">>, POSTGRES, <<"b">>, <<"J">>)
\* *:*:*:* has no password
EntryShort   == <<"*", ":", "*", ":", "*", ":", "*">> \o LF
PgpassPool == {EntryExact, EntryHost, EntryGeneric, EntryOther, EntryShort}
PgpassArgs == {<<Options, lines>> : lines \in SeqsUpTo(PgpassPool, MaxEntries)}

---------------------------------------------------------------------------
(* importer.py: the databases and the operations of mwdb it calls *)

TableNames == {REDIRECT}

\* A table: whether the database has it, the dump file its rows were loaded
\* from, the number of its rows, and whether it has its primary key
\* constraint and its indexes.
NoTable == [present |-> FALSE, source |-> <<>>, rows |-> 0,
            pkey |-> FALSE, indexes |-> FALSE]

NoDatabase    == [exists |-> FALSE, tables |-> [t \in TableNames |-> NoTable]]
EmptyDatabase == [exists |-> TRUE, tables |-> [t \in TableNames |-> NoTable]]

\* dump_db.table_names
table_names(d) == {t \in TableNames : d.tables[t].present}

\* dump_db.create_table(table_name=t, pkey=False, index=False)
create_table(d, t) ==
    [d EXCEPT !.tables[t] = [NoTable EXCEPT !.present = TRUE]]

drop_pkey_constraint(d, t) == [d EXCEPT !.tables[t].pkey = FALSE]

drop_indexes(d, t) == [d EXCEPT !.tables[t].indexes = FALSE]

truncate_table(d, t) == [d EXCEPT !.tables[t].rows = 0, !.tables[t].source = <<>>]

create_pkey_constraint(d, t) == [d EXCEPT !.tables[t].pkey = TRUE]

create_indexes(d, t) == [d EXCEPT !.tables[t].indexes = TRUE]

\* What psql makes of one INSERT statement of the dump file at path.
insert_row(d, t, path) ==
    [d EXCEPT !.tables[t].rows = @ + 1, !.tables[t].source = path]

\* The database _connect_to_db returns for the database d it finds: it is
\* created when it does not exist.
connect_to_db(d) == IF ~d.exists THEN EmptyDatabase ELSE d

\* _create_table that leaves a table it finds as it is, reimport or not
importer_create_table_keep(d, t, reimp) ==
    IF t \notin table_names(d) THEN create_table(d, t) ELSE d

\* _create_table(dump_db, table_name)
importer_create_table(d, t, reimp) ==
    IF t \notin table_names(d) THEN create_table(d, t)
    ELSE IF reimp THEN truncate_table(drop_indexes(drop_pkey_constraint(d, t), t), t)
    ELSE d

\* skips_import without the not: the import is skipped when reimport is on
skips_import_on_reimport(d, t, reimp) == t \in table_names(d) /\ reimp

\* The test of _import_sql_dump that skips the import:
\* dump_info.table in dump_db.table_names and not self.options.reimport
skips_import(d, t, reimp) == t \in table_names(d) /\ ~reimp

\* What _import_sql_dump logs for the IntegrityError of
\* create_pkey_constraint: '{0}.{1.table}: Could not create pkey constraint'
PkeyError(dump_info) ==
    [msg |-> "Could not create pkey constraint", table |-> dump_info.table]

\* DumpInfo(path, fn_regex): the path, the file name and the groups of the
\* pattern in the file name
DumpInfo(path) ==
    LET fn_mat == fn_pat(os_path_basename(path)) IN
    [path     |-> path,
     filename |-> os_path_basename(path),
     language |-> fn_mat.language,
     date     |-> fn_mat.date,
     table    |-> fn_mat.table]

NoDump == [path |-> <<>>, filename |-> <<>>, language |-> <<>>, date |-> <<>>,
           table |-> <<>>]

\* self._database_name(dump_info), for a db_name_template that holds the
\* language and nothing else of the dump
database_name(dump_info) == dump_info.language

\* The dumps the loops of import_dumps run over: the dump files found, in
\* the order of their paths, those of the languages that are not enabled
\* left out.
RECURSIVE enabled_dumps(_, _)
enabled_dumps(found, enabled) ==
    IF found = <<>> THEN <<>>
    ELSE (IF DumpInfo(Head(found)).language \in enabled THEN <<Head(found)>> ELSE <<>>)
         \o enabled_dumps(Tail(found), enabled)

\* The databases import_dumps finds: none, one without tables, one whose
\* table an earlier run has loaded
MaxDumpStmts == 2   \* the most statements of a dump file
OLD == <<"o", "l", "d">>
LoadedDatabase ==
    [exists |-> TRUE,
     tables |-> [t \in TableNames |->
                    [present |-> TRUE, source |-> OLD, rows |-> 1,
                     pkey |-> TRUE, indexes |-> TRUE]]]
Languages == {DE, EN}
ImportPaths == {<<<<"d">>>>, <<DirDe \o <<"/">>>>, <<FileDeNew>>,
                <<FileDeNew, FileDeOld>>, <<<<"x">>>>}

NoImport ==
    /\ paths = <<>>
    /\ reimport = FALSE
    /\ enabled_languages = {}
    /\ db = [l \in Languages |-> NoDatabase]
    /\ todo = <<>>
    /\ processed = <<>>
    /\ dump = NoDump
    /\ imp_pc = "none"
    /\ opened = FALSE
    /\ piped = 0
    /\ returncode = 0
    /\ imp_raised = "none"

---------------------------------------------------------------------------
(* insert_statements(file_path), driven by its consumer *)

\* finally_close without the finally clause: the file object is left as it is
finally_no_close(h, exc) == [handle |-> h, raised |-> exc]

\* The finally clause of open_compressed, open_file.close(), entered with
\* the file object in state h (open_file is unbound when it is "unopened")
\* and the exception exc in flight: the state it leaves the file object in
\* and the exception that leaves open_compressed.
finally_close(h, exc) ==
    IF h = "unopened"
    THEN [handle |-> h, raised |-> "UnboundLocalError"]
    ELSE [handle |-> "closed", raised |-> exc]

\* The index of the next line after line p that filter_strings lets through,
\* 0 when there is none.
NextInsert(lines, p) ==
    LET later == {k \in (p + 1)..Len(lines) : filter_match(lines[k])} IN
    IF later = {} THEN 0 ELSE CHOOSE k \in later : \A j \in later : k <= j

\* The generator can run: it is suspended at its yield, or it has not started
\* and open_compressed opens the file.
Runnable == gen = "suspended" \/ (gen = "created" /\ file_exists)

Selected == IF gen = "created" THEN select_pipeline(file_path) ELSE pipeline

\* IterInit of an insert_statements that is no generator: the call opens
\* the file and reads it to its end
IterInitEager ==
    /\ file_path \in {d \o b : d \in DirPool, b \in BasePool}
    /\ file_exists = TRUE
    /\ file_lines \in SeqsUpTo(LinePool, MaxLines)
    /\ handle = "open"
    /\ pos = Len(file_lines)
    /\ gen = "created"
    /\ raised = "none"
    /\ pipeline = "none"
    /\ out = <<>>
    /\ log = <<>>

\* insert_statements(file_path) called: a generator that has not started, no
\* statement of its body has run.
IterInit ==
    /\ file_path \in {d \o b : d \in DirPool, b \in BasePool}
    /\ file_exists \in BOOLEAN
    /\ file_lines \in SeqsUpTo(LinePool, MaxLines)
    /\ (~file_exists => file_lines = <<>>)
    /\ handle = "unopened"
    /\ pos = 0
    /\ gen = "created"
    /\ raised = "none"
    /\ pipeline = "none"
    /\ out = <<>>
    /\ log = <<>>

NoCall ==
    /\ fn = "none"
    /\ fn_arg = <<>>
    /\ fn_ret = <<>>
    /\ fn_pc = "none"

Init == IterInit /\ NoCall /\ NoImport

\* next() on a generator that has not started, the file cannot be opened
NextOpenFails ==
    /\ gen = "created"
    /\ ~file_exists
    /\ LET f == finally_close("unopened", "IOError") IN
           /\ handle' = f.handle
           /\ raised' = f.raised
    /\ gen' = "raised"
    /\ UNCHANGED <<file_path, file_exists, file_lines, pos, pipeline, out, log>>
    /\ UNCHANGED call_vars
    /\ UNCHANGED imp_vars

\* next(): the pipeline reads up to the next INSERT line and yields its statement
NextYields ==
    /\ Runnable
    /\ NextInsert(file_lines, pos) # 0
    /\ LET k == NextInsert(file_lines, pos)
           r == convert_multirow_element(file_lines[k])
       IN  /\ r.kind = "yield"
           /\ out' = Append(out, [stmt |-> pipeline_stages(Selected, r.stmt), src |-> k])
           /\ log' = log \o r.logs
           /\ pos' = k
    /\ handle' = "open"
    /\ pipeline' = Selected
    /\ gen' = "suspended"
    /\ UNCHANGED <<file_path, file_exists, file_lines, raised>>
    /\ UNCHANGED call_vars
    /\ UNCHANGED imp_vars

\* next(): the decode stage raises on the next INSERT line
NextRaises ==
    /\ Runnable
    /\ NextInsert(file_lines, pos) # 0
    /\ LET k == NextInsert(file_lines, pos)
           r == convert_multirow_element(file_lines[k])
           f == finally_close("open", "AttributeError")
       IN  /\ r.kind = "raise"
           /\ log' = log \o r.logs
           /\ pos' = k
           /\ handle' = f.handle
           /\ raised' = f.raised
    /\ pipeline' = Selected
    /\ gen' = "raised"
    /\ UNCHANGED <<file_path, file_exists, file_lines, out>>
    /\ UNCHANGED call_vars
    /\ UNCHANGED imp_vars

\* next(): no INSERT line is left, the generator returns
NextExhausts ==
    /\ Runnable
    /\ NextInsert(file_lines, pos) = 0
    /\ pos' = Len(file_lines)
    /\ handle' = finally_close("open", "none").handle
    /\ pipeline' = Selected
    /\ gen' = "exhausted"
    /\ UNCHANGED <<file_path, file_exists, file_lines, raised, out, log>>
    /\ UNCHANGED call_vars
    /\ UNCHANGED imp_vars

\* close() on the generator, or its collection: GeneratorExit is raised at the
\* yield it is suspended at, inside the with statement
Close ==
    /\ gen \in {"created", "suspended"}
    /\ handle' = IF gen = "suspended" THEN finally_close(handle, "GeneratorExit").handle
                 ELSE handle
    /\ gen' = "closed"
    /\ UNCHANGED <<file_path, file_exists, file_lines, pos, raised, pipeline, out, log>>
    /\ UNCHANGED call_vars
    /\ UNCHANGED imp_vars

Next ==
    \/ NextOpenFails
    \/ NextYields
    \/ NextRaises
    \/ NextExhausts
    \/ Close

Spec == Init /\ [][Next]_vars

---------------------------------------------------------------------------
(* Single calls of the functions of the pipeline *)

NoIter ==
    /\ file_path = <<>>
    /\ file_exists = FALSE
    /\ file_lines = <<>>
    /\ handle = "unopened"
    /\ pos = 0
    /\ gen = "none"
    /\ raised = "none"
    /\ pipeline = "none"
    /\ out = <<>>
    /\ log = <<>>

CallInit ==
    /\ NoIter
    /\ NoImport
    /\ fn_pc = "ready"
    /\ fn_ret = <<>>
    /\ \/ fn = "psql_quotation" /\ fn_arg \in QuoteArgs
       \/ fn = "timestamp_to_iso_8601" /\ fn_arg \in StampArgs \cup OddStampArgs \cup PairStampArgs
       \/ fn = "single_rows" /\ fn_arg \in InsertLines
       \/ fn = "convert_multirow_to_unicode" /\ fn_arg \in MultirowArgs
       \/ fn = "convert_to_unicode" /\ fn_arg \in UnicodeArgs
       \/ fn = "password_from_pgpass" /\ fn_arg \in PgpassArgs
       \/ fn = "dump_file_paths" /\ fn_arg \in SearchArgs

Returns(name, value) ==
    /\ fn = name
    /\ fn_pc = "ready"
    /\ fn_ret' = value
    /\ fn_pc' = "returned"
    /\ UNCHANGED <<fn, fn_arg>>
    /\ UNCHANGED iter_vars
    /\ UNCHANGED imp_vars

CallPsqlQuotation == Returns("psql_quotation", psql_quotation(fn_arg))

CallTimestampToIso8601 == Returns("timestamp_to_iso_8601", timestamp_to_iso_8601(fn_arg))

CallSingleRows == Returns("single_rows", single_rows(fn_arg))

CallConvertMultirow ==
    Returns("convert_multirow_to_unicode", convert_multirow_to_unicode(fn_arg))

CallConvertToUnicode == Returns("convert_to_unicode", convert_to_unicode(fn_arg))

CallPasswordFromPgpass ==
    Returns("password_from_pgpass", password_from_pgpass(fn_arg[1], fn_arg[2]))

CallDumpFilePaths == Returns("dump_file_paths", dump_file_paths(Disk, fn_arg))

CallNext ==
    \/ CallPsqlQuotation
    \/ CallTimestampToIso8601
    \/ CallSingleRows
    \/ CallConvertMultirow
    \/ CallConvertToUnicode
    \/ CallPasswordFromPgpass
    \/ CallDumpFilePaths

SpecCall == CallInit /\ [][CallNext]_vars

---------------------------------------------------------------------------
(* import_dumps(paths) and the _import_sql_dump it runs for each dump *)

ImportInit ==
    /\ NoIter
    /\ NoCall
    /\ paths \in ImportPaths
    /\ reimport \in BOOLEAN
    /\ enabled_languages \in {{DE}, {DE, EN}}
    /\ db \in [Languages -> {NoDatabase, EmptyDatabase, LoadedDatabase}]
    /\ todo = <<>>
    /\ processed = <<>>
    /\ dump = NoDump
    /\ imp_pc = "called"
    /\ opened = FALSE
    /\ piped = 0
    /\ returncode = 0
    /\ imp_raised = "none"

\* import_dumps up to its loops: the dump files found, sorted, grouped by
\* language, the groups of the enabled languages kept
ImportDumps ==
    /\ imp_pc = "called"
    /\ todo' = enabled_dumps(dump_file_paths(Disk, paths), enabled_languages)
    /\ imp_pc' = "loop"
    /\ UNCHANGED <<paths, reimport, enabled_languages, db, processed, dump, opened,
                   piped, returncode, imp_raised>>
    /\ UNCHANGED <<iter_vars, call_vars>>

\* for dump in dumps: self._import_sql_dump(dump)
NextDump ==
    /\ imp_pc = "loop"
    /\ todo # <<>>
    /\ dump' = DumpInfo(Head(todo))
    /\ todo' = Tail(todo)
    /\ processed' = Append(processed, Head(todo))
    /\ opened' = FALSE
    /\ piped' = 0
    /\ returncode' = 0
    /\ imp_pc' = "connect"
    /\ UNCHANGED <<paths, reimport, enabled_languages, db, imp_raised>>
    /\ UNCHANGED <<iter_vars, call_vars>>

\* the loops of import_dumps end
ImportDumpsReturns ==
    /\ imp_pc = "loop"
    /\ todo = <<>>
    /\ imp_pc' = "returned"
    /\ UNCHANGED <<paths, reimport, enabled_languages, db, todo, processed, dump,
                   opened, piped, returncode, imp_raised>>
    /\ UNCHANGED <<iter_vars, call_vars>>

\* dump_db = self._connect_to_db(dump_info)
ConnectToDb ==
    /\ imp_pc = "connect"
    /\ db' = [db EXCEPT ![database_name(dump)] = connect_to_db(@)]
    /\ imp_pc' = "connected"
    /\ UNCHANGED <<paths, reimport, enabled_languages, todo, processed, dump, opened,
                   piped, returncode, imp_raised>>
    /\ UNCHANGED <<iter_vars, call_vars>>

\* the table is there and reimport is off: _import_sql_dump returns
SkipImport ==
    /\ imp_pc = "connected"
    /\ skips_import(db[database_name(dump)], dump.table, reimport)
    /\ imp_pc' = "loop"
    /\ UNCHANGED <<paths, reimport, enabled_languages, db, todo, processed, dump,
                   opened, piped, returncode, imp_raised>>
    /\ UNCHANGED <<iter_vars, call_vars>>

\* self._create_table(dump_db, dump_info.table), then the generator of the
\* statements is made and psql is started
CreateTable ==
    /\ imp_pc = "connected"
    /\ ~skips_import(db[database_name(dump)], dump.table, reimport)
    /\ db' = [db EXCEPT ![database_name(dump)] =
                 importer_create_table(@, dump.table, reimport)]
    /\ imp_pc' = "piping"
    /\ UNCHANGED <<paths, reimport, enabled_languages, todo, processed, dump, opened,
                   piped, returncode, imp_raised>>
    /\ UNCHANGED <<iter_vars, call_vars>>

\* the loop of _psql_pipe takes a statement from the generator, which opens
\* the file when it is the first, and writes it to psql
PipeStatement ==
    /\ imp_pc = "piping"
    /\ piped < MaxDumpStmts
    /\ opened' = TRUE
    /\ piped' = piped + 1
    /\ db' = [db EXCEPT ![database_name(dump)] = insert_row(@, dump.table, dump.path)]
    /\ UNCHANGED <<paths, reimport, enabled_languages, todo, processed, dump, imp_pc,
                   returncode, imp_raised>>
    /\ UNCHANGED <<iter_vars, call_vars>>

\* the generator raises where the loop of _psql_pipe asks it for a
\* statement: a line of the file that convert_multirow_to_unicode raises on
PipeRaises ==
    /\ imp_pc = "piping"
    /\ opened' = TRUE
    /\ imp_raised' = "AttributeError"
    /\ imp_pc' = "raised"
    /\ UNCHANGED <<paths, reimport, enabled_languages, db, todo, processed, dump,
                   piped, returncode>>
    /\ UNCHANGED <<iter_vars, call_vars>>

\* the generator is exhausted: stdin is closed and psql exits
PsqlExits ==
    /\ imp_pc = "piping"
    /\ opened' = TRUE
    /\ returncode' \in {0, 1}
    /\ imp_pc' = "exited"
    /\ UNCHANGED <<paths, reimport, enabled_languages, db, todo, processed, dump,
                   piped, imp_raised>>
    /\ UNCHANGED <<iter_vars, call_vars>>

\* psql_returncode != 0: dump_db.drop_table(table), where no name table is
\* bound in _import_sql_dump or in the module
ImportFailed ==
    /\ imp_pc = "exited"
    /\ returncode # 0
    /\ imp_raised' = "NameError"
    /\ imp_pc' = "raised"
    /\ UNCHANGED <<paths, reimport, enabled_languages, db, todo, processed, dump,
                   opened, piped, returncode>>
    /\ UNCHANGED <<iter_vars, call_vars>>

\* dump_db.create_pkey_constraint(dump_info.table), or the IntegrityError
\* it raises, which is logged
CreatePkeyConstraint ==
    /\ imp_pc = "exited"
    /\ returncode = 0
    /\ \/ /\ db' = [db EXCEPT ![database_name(dump)] =
                        create_pkey_constraint(@, dump.table)]
          /\ UNCHANGED log
       \/ /\ log' = Append(log, PkeyError(dump))
          /\ UNCHANGED db
    /\ imp_pc' = "pkey"
    /\ UNCHANGED <<paths, reimport, enabled_languages, todo, processed, dump, opened,
                   piped, returncode, imp_raised>>
    /\ UNCHANGED <<file_path, file_exists, file_lines, handle, pos, gen, raised,
                   pipeline, out>>
    /\ UNCHANGED call_vars

\* dump_db.create_indexes(dump_info.table); _import_sql_dump returns
CreateIndexes ==
    /\ imp_pc = "pkey"
    /\ db' = [db EXCEPT ![database_name(dump)] = create_indexes(@, dump.table)]
    /\ imp_pc' = "loop"
    /\ UNCHANGED <<paths, reimport, enabled_languages, todo, processed, dump, opened,
                   piped, returncode, imp_raised>>
    /\ UNCHANGED <<iter_vars, call_vars>>

ImportNext ==
    \/ ImportDumps
    \/ NextDump
    \/ ImportDumpsReturns
    \/ ConnectToDb
    \/ SkipImport
    \/ CreateTable
    \/ PipeStatement
    \/ PipeRaises
    \/ PsqlExits
    \/ ImportFailed
    \/ CreatePkeyConstraint
    \/ CreateIndexes

SpecImport == ImportInit /\ [][ImportNext]_vars

---------------------------------------------------------------------------
(* Claims about single calls, checked under SpecCall *)

Returned(name) == fn = name /\ fn_pc = "returned"

\* The rows of a sequence that decode, decoded, in order.
RECURSIVE CleanRows(_)
CleanRows(rows) ==
    IF rows = <<>> THEN <<>>
    ELSE (IF Decodable(Head(rows)) THEN <<Decode(Head(rows))>> ELSE <<>>)
         \o CleanRows(Tail(rows))

\* C1: for a line INSERT INTO <q><table><q> VALUES (r1),...,(rk); that does
\* not decode as a whole, convert_multirow_to_unicode yields exactly one
\* statement, INSERT INTO <q><table><q> VALUES <rows>; whose rows are exactly
\* the rows of the line that decode, in their order.
C1_SalvageKeepsExactlyCleanRows ==
    Returned("convert_multirow_to_unicode") =>
        \A q \in Quotes, t \in Tables, rows \in RowSeqs :
            LET line == MultirowInsert(q, t, q, rows, <<>>) IN
            (fn_arg = <<line>> /\ ~Decodable(line)) =>
                fn_ret.yields = <<Statement(q, t, CleanRows(rows))>>

\* C3: psql_quotation yields as many statements as it is given, in order,
\* each of the length of its input, with a double quote wherever the input
\* has a backtick, every other character unchanged, and no backtick left.
C3_QuotationPositional ==
    Returned("psql_quotation") =>
        /\ Len(fn_ret) = Len(fn_arg)
        /\ \A i \in DOMAIN fn_arg :
            /\ Len(fn_ret[i]) = Len(fn_arg[i])
            /\ \A j \in DOMAIN fn_arg[i] :
                /\ fn_arg[i][j] = BQ => fn_ret[i][j] = DQ
                /\ fn_arg[i][j] # BQ => fn_ret[i][j] = fn_arg[i][j]
                /\ fn_ret[i][j] # BQ

C3_Witness ==
    /\ Returned("psql_quotation")
    /\ fn_arg = <<<<BQ, "a">>, <<DQ, BQ>>>>
    /\ fn_ret = <<<<DQ, "a">>, <<DQ, DQ>>>>

\* 'YYYY-MM-DDTHH:MM:SSZ' for the fourteen digits YYYYMMDDHHMMSS
Iso8601Literal(stamp) ==
    <<"'", stamp[1], stamp[2], stamp[3], stamp[4], "-", stamp[5], stamp[6], "-",
      stamp[7], stamp[8], "T", stamp[9], stamp[10], ":", stamp[11], stamp[12], ":",
      stamp[13], stamp[14], "Z", "'">>

\* The claim that a value of fourteen digits opened by the delimiter open is
\* rewritten to its ISO 8601 literal between the same delimiters, the text
\* around it unchanged.
RewritesStampAfter(open) ==
    Returned("timestamp_to_iso_8601") =>
        \A pre \in Befores, close \in Closers, post \in Afters :
            LET el    == fn_arg[1]
                stamp == SubSeq(el, Len(pre) + 2, Len(pre) + 15)
            IN  (/\ Len(el) = Len(pre) + 16 + Len(post)
                 /\ stamp \in Stamps
                 /\ el = StampText(pre, open, stamp, close, post))
                => fn_ret = <<pre \o <<open>> \o Iso8601Literal(stamp) \o <<close>> \o post>>

\* C4: timestamp_to_iso_8601 rewrites a comma, fourteen digits of a valid
\* date and time and a closing ',' or ')' into the comma, the quoted literal
\* 'YYYY-MM-DDTHH:MM:SSZ' and the same closing delimiter, and leaves the
\* text before and after unchanged.
C4_CommaStampRewritten == RewritesStampAfter(",")

\* ,20080218135752) foo becomes ,'2008-02-18T13:57:52Z') foo
C4_Witness ==
    /\ Returned("timestamp_to_iso_8601")
    /\ fn_arg = <<<<",", "2", "0", "0", "8", "0", "2", "1", "8", "1", "3", "5", "7",
                    "5", "2", ")", " ", "f", "o", "o">>>>
    /\ fn_ret = <<<<",", "'", "2", "0", "0", "8", "-", "0", "2", "-", "1", "8", "T",
                    "1", "3", ":", "5", "7", ":", "5", "2", "Z", "'", ")",
                    " ", "f", "o", "o">>>>

\* C5: timestamp_to_iso_8601 rewrites a value of fourteen digits opened by
\* an opening parenthesis, the first value of a row: (20091023000000,
\* becomes ('2009-10-23T00:00:00Z', with the parenthesis and the comma kept.
C5_ParenStampRewritten == RewritesStampAfter("(")

\* C18: timestamp_to_iso_8601 rewrites every value of fourteen digits between
\* a comma and a closing ',' or ')', whatever its digits are (a month of 99,
\* an hour of 60), and leaves a value between the delimiters that is not
\* fourteen digits as it is.
C18_AnyFourteenDigitsOnly ==
    Returned("timestamp_to_iso_8601") =>
        \A pre \in Befores, close \in Closers, post \in Afters :
            /\ \A stamp \in Stamps \cup OddStamps :
                fn_arg = <<StampText(pre, ",", stamp, close, post)>> =>
                    fn_ret = <<pre \o <<",">> \o Iso8601Literal(stamp) \o <<close>> \o post>>
            /\ \A value \in NonStamps :
                fn_arg = <<StampText(pre, ",", value, close, post)>> => fn_ret = fn_arg

\* C21: timestamp_to_iso_8601 rewrites both of two values of fourteen digits
\* that share a comma, the comma closing the first and opening the second:
\* ,20080218135752,20091023000000) becomes
\* ,'2008-02-18T13:57:52Z','2009-10-23T00:00:00Z')
C21_SharedDelimiterBothRewritten ==
    Returned("timestamp_to_iso_8601") =>
        \A pre \in Befores, first \in PairStamps, second \in PairStamps,
           close \in Closers, post \in Afters :
            fn_arg = <<StampPair(pre, first, second, close, post)>> =>
                fn_ret = <<pre \o <<",">> \o Iso8601Literal(first) \o <<",">>
                           \o Iso8601Literal(second) \o <<close>> \o post>>

\* C7: single_rows on a multirow INSERT of k rows yields exactly those k
\* rows, in order, whatever parentheses their values hold.
C7_SingleRowsYieldsTheRows ==
    Returned("single_rows") =>
        \A q \in Quotes, t \in Tables, rows \in RowSeqs, eol \in {<<>>, LF} :
            fn_arg = MultirowInsert(q, t, q, rows, eol) => fn_ret = rows

\* The rows whose values do not hold the text ),(
PlainRowSeqs == {rows \in RowSeqs :
                    \A i \in DOMAIN rows : rows[i] \notin {RowSplit, RowBadSplit}}

\* C10: every row of an INSERT line that is absent from the statement the
\* decode stage yields for the line has a warning that carries the row,
\* decoded with replacement, and the encoding.
C10_EveryDroppedRowLogged ==
    Returned("convert_multirow_to_unicode") =>
        \A q \in Quotes, t \in Tables, rows \in PlainRowSeqs, eol \in LineEnds :
            (fn_arg = <<MultirowInsert(q, t, q, rows, eol)>> /\ Len(fn_ret.yields) = 1) =>
                \A i \in DOMAIN rows :
                    ~Contains(fn_ret.yields[1], DecodeReplace(rows[i])) =>
                        \E w \in Range(fn_ret.logs) :
                            /\ w.row = DecodeReplace(rows[i])
                            /\ w.encoding = Encoding

\* The shape INSERT INTO <quote><name><quote> VALUES ..., the same quote on
\* both sides of the name.
InsertShape(line) ==
    \E q \in Quotes, n \in 1..Len(line) :
        /\ \A i \in 14..(13 + n) : i <= Len(line) /\ (IsWord(line[i]) \/ line[i] = "-")
        /\ StartsWith(line, INSERT \o SP \o INTO \o SP \o <<q>> \o SubSeq(line, 14, 13 + n)
                             \o <<q>> \o SP \o VALUES)

\* C11: for a line that does not decode as a whole and does not have the
\* shape INSERT INTO <quote><name><quote> VALUES ..., convert_multirow_to_unicode
\* raises to its caller and yields no statement for the line.
C11_MalformedLineRaises ==
    Returned("convert_multirow_to_unicode") =>
        \A line \in MalformedLines :
            (~Decodable(line) /\ ~InsertShape(line)) =>
                /\ fn_arg = <<line>> =>
                        (fn_ret.raised # "none" /\ fn_ret.yields = <<>>)
                /\ fn_arg = <<LinePlain, line>> =>
                        (fn_ret.raised # "none" /\ Len(fn_ret.yields) = 1)

\* C12: for a multirow INSERT line that does not decode as a whole and none
\* of whose rows decodes, convert_multirow_to_unicode yields exactly one
\* statement, INSERT INTO <q><table><q> VALUES ; and does not raise.
C12_NoCleanRowEmptyValues ==
    Returned("convert_multirow_to_unicode") =>
        \A q \in Quotes, t \in Tables, rows \in RowSeqs, eol \in LineEnds :
            (/\ fn_arg = <<MultirowInsert(q, t, q, rows, eol)>>
             /\ \A i \in DOMAIN rows : ~Decodable(rows[i]))
            => (fn_ret.yields = <<Statement(q, t, <<>>)>> /\ fn_ret.raised = "none")

\* C17: convert_to_unicode yields the decoded text of every element that
\* decodes, in the order of the input, logs one warning for every element
\* that does not and yields nothing for it; an element that does not decode
\* does not end the sequence.
C17_DropsAndContinues ==
    Returned("convert_to_unicode") =>
        LET good == {i \in DOMAIN fn_arg : Decodable(fn_arg[i])}
            nth(k) == CHOOSE i \in good : Cardinality({j \in good : j < i}) = k - 1
        IN  /\ Len(fn_ret.yields) = Cardinality(good)
            /\ \A k \in DOMAIN fn_ret.yields : fn_ret.yields[k] = Decode(fn_arg[nth(k)])
            /\ Len(fn_ret.logs) = Len(fn_arg) - Cardinality(good)

\* ('\xe5') is dropped with a warning and ('\xc3\xa5') after it is yielded
C17_Witness ==
    /\ Returned("convert_to_unicode")
    /\ fn_arg = <<RowLatin1, RowUtf8>>
    /\ fn_ret.yields = <<<<"(", "'", "xC3xA5", "'", ")">>>>
    /\ Len(fn_ret.logs) = 1

\* The number of columns among user, host and port in which the entry names
\* the value of the options and not the wildcard.
Specificity(options, d) ==
    Cardinality({c \in {"user", "host", "port"} : d[Column(c)] # STAR})

\* C13: password_from_pgpass returns the password of the most specific
\* entry of the file that matches the options, an exact value ranked over
\* the wildcard, whatever the order of the entries is.
C13_MostSpecificEntryWins ==
    Returned("password_from_pgpass") =>
        LET options  == fn_arg[1]
            entries  == [i \in DOMAIN fn_arg[2] |-> parse_pgpass_line(fn_arg[2][i])]
            matching == {i \in DOMAIN entries : credentials_match(options, entries[i])}
        IN  (/\ \A i \in DOMAIN entries : Len(entries[i]) = Len(colnames)
             /\ matching # {})
            => /\ fn_ret.kind = "return"
               /\ \E i \in matching :
                    /\ \A j \in matching :
                        Specificity(options, entries[i]) >= Specificity(options, entries[j])
                    /\ fn_ret.value = entries[i][Column("password")]

\* The files of the disk that a search path names or holds.
Reachable(search_paths) ==
    {f \in Disk : \E i \in DOMAIN search_paths :
        \/ resolve(search_paths[i]) = f
        \/ StartsWith(f, resolve(search_paths[i]) \o <<"/">>)}

\* C14: dump_file_paths returns every file at or beneath the search paths
\* whose base name matches the pattern exactly once, in ascending order of
\* path, also when a file is reachable through a directory and through its
\* own path, and returns no file whose base name does not match.
C14_EachDumpFileOnceSorted ==
    Returned("dump_file_paths") =>
        LET dumps == {f \in Reachable(fn_arg) : f # FileReadme} IN
        /\ \A f \in dumps :
            Cardinality({k \in DOMAIN fn_ret : resolve(fn_ret[k]) = f}) = 1
        /\ \A k \in DOMAIN fn_ret : resolve(fn_ret[k]) \in dumps
        /\ \A k \in 1..(Len(fn_ret) - 1) : TextLess(fn_ret[k], fn_ret[k + 1])

---------------------------------------------------------------------------
(* Claims about the iteration of insert_statements, checked under Spec *)

\* The indices of the lines that start with the six characters INSERT, in
\* order.
RECURSIVE InsertLineIndices(_, _)
InsertLineIndices(lines, k) ==
    IF k > Len(lines) THEN <<>>
    ELSE (IF Len(lines[k]) >= 6 /\ \A j \in 1..6 : lines[k][j] = INSERT[j]
          THEN <<k>> ELSE <<>>)
         \o InsertLineIndices(lines, k + 1)

\* INSERT INTO "t" VALUES (1);
StmtPlain == INSERT \o SP \o INTO \o SP \o <<DQ, "t", DQ>> \o SP \o VALUES \o SP
             \o RowOne \o <<";">>

\* C2: the i-th statement the pipeline yields is derived from the i-th line
\* that starts with INSERT, none is derived from another line, and when the
\* iteration ends without an error there are as many statements as there are
\* lines that start with INSERT.
C2_OneStatementPerInsertLine ==
    LET matching == InsertLineIndices(file_lines, 1) IN
    /\ Len(out) <= Len(matching)
    /\ \A i \in DOMAIN out :
        /\ out[i].src = matching[i]
        /\ file_lines[out[i].src] = LinePlain => out[i].stmt = StmtPlain
    /\ gen = "exhausted" => Len(out) = Len(matching)

C2_Witness ==
    /\ gen = "exhausted"
    /\ file_lines = <<LineComment, LinePlain, LineLower>>
    /\ Len(out) = 1
    /\ out[1] = [stmt |-> StmtPlain, src |-> 2]

\* INSERT INTO "c" VALUES (1,20060725190322);
StmtStampKept == INSERT \o SP \o INTO \o SP \o <<DQ, "c", DQ>> \o SP \o VALUES \o SP
                 \o RowStamp \o <<";">>

\* INSERT INTO "c" VALUES (1,'2006-07-25T19:03:22Z');
StmtStampRewritten ==
    INSERT \o SP \o INTO \o SP \o <<DQ, "c", DQ>> \o SP \o VALUES \o SP
    \o <<"(", "1", ",", "'", "2", "0", "0", "6", "-", "0", "7", "-", "2", "5", "T",
         "1", "9", ":", "0", "3", ":", "2", "2", "Z", "'", ")", ";">>

\* C6: insert_statements selects the pipeline from the base name of the path
\* alone: categorylinks_pipeline, which rewrites timestamps, when the base
\* name holds categorylinks, generic_pipeline, which does not, otherwise,
\* whatever the directory is named.
C6_PipelineFromBaseName ==
    \A d \in DirPool, b \in BasePool :
        (file_path = d \o b /\ handle # "unopened") =>
            /\ pipeline = IF b = BaseCategorylinks THEN "categorylinks" ELSE "generic"
            /\ \A i \in DOMAIN out :
                file_lines[out[i].src] = LineStamp =>
                    out[i].stmt = IF b = BaseCategorylinks THEN StmtStampRewritten
                                  ELSE StmtStampKept

C6_Witness ==
    /\ file_path = CATEGORYLINKS \o <<"/">> \o BaseRedirect
    /\ gen = "exhausted"
    /\ pipeline = "generic"
    /\ \E i \in DOMAIN out : out[i].stmt = StmtStampKept

\* C8: once the file is open, every end of the iteration (exhaustion, an
\* exception of a stage, the consumer closing the generator) leaves the file
\* object closed, and no statement is yielded once it is closed.
C8_HandleClosedOnEveryExit ==
    [][/\ gen' \in {"exhausted", "raised", "closed"} => handle' # "open"
       /\ handle = "open" => handle' \in {"open", "closed"}
       /\ handle = "closed" => (handle' = "closed" /\ out' = out)]_vars

\* the consumer closes the generator before the statements are exhausted
C8_Witness ==
    /\ gen = "closed"
    /\ handle = "closed"
    /\ Len(out) = 1
    /\ NextInsert(file_lines, pos) # 0

\* C9: when the file cannot be opened, the error the caller of
\* insert_statements observes is the one the open call raised, and no
\* statement is yielded.
C9_OpenErrorReachesCaller ==
    (~file_exists /\ gen = "raised") => (raised = "IOError" /\ out = <<>>)

\* C15: the file is not opened before the consumer asks for the first
\* statement, and when the consumer holds k statements the pipeline has read
\* the file up to the line the k-th statement was made from and no further.
C15_DemandDriven ==
    /\ gen = "created" => (handle = "unopened" /\ pos = 0 /\ out = <<>>)
    /\ gen = "suspended" => (out # <<>> /\ pos = out[Len(out)].src)
    /\ gen = "closed" => pos = (IF out = <<>> THEN 0 ELSE out[Len(out)].src)

\* one statement received, a later INSERT line not read yet
C15_Witness ==
    /\ gen = "suspended"
    /\ file_lines = <<LinePlain, LineComment, LineSalvage>>
    /\ Len(out) = 1
    /\ pos = 1

---------------------------------------------------------------------------
(* Claims about import_dumps and _import_sql_dump, checked under SpecImport *)

\* C16: of two dump files of one language and one table found at or beneath
\* the paths, import_dumps processes the one with the latest date only.
C16_OnlyNewestImported ==
    \A k \in DOMAIN processed :
        \A f \in Reachable(paths) :
            (/\ fn_pat(os_path_basename(f)).matched
             /\ DumpInfo(f).language = DumpInfo(processed[k]).language
             /\ DumpInfo(f).table = DumpInfo(processed[k]).table)
            => ~TextLess(DumpInfo(processed[k]).date, DumpInfo(f).date)

\* C19: once psql has exited with a return code that is not 0 and
\* _import_sql_dump has acted on it, the table of the dump is not in the
\* database, with it its primary key constraint and its indexes, and no
\* exception has been raised.
C19_FailedImportDropsTable ==
    (dump # NoDump /\ returncode # 0 /\ imp_pc # "exited") =>
        /\ imp_raised = "none"
        /\ dump.table \notin table_names(db[database_name(dump)])

\* C20: when the table of the dump is in the database and reimport is off,
\* no step of _import_sql_dump changes the database, opens the dump file or
\* writes a statement to psql, and the method returns.
C20_SkipLeavesDatabase ==
    [][(/\ imp_pc \in {"connect", "connected"}
        /\ dump.table \in table_names(db[database_name(dump)])
        /\ ~reimport)
       => (/\ db' = db
           /\ opened' = FALSE
           /\ piped' = 0
           /\ imp_pc' \in {"connected", "loop"})]_vars

\* the import of d/de/dewiki-20091023-redirect.sql.gz skipped, the table an
\* earlier run loaded as it was
C20_Witness ==
    /\ imp_pc = "loop"
    /\ dump.path = FileDeNew
    /\ ~reimport
    /\ ~opened
    /\ piped = 0
    /\ db[DE] = LoadedDatabase

\* The table of the running _import_sql_dump
DumpTable == db[database_name(dump)].tables[dump.table]

\* C22: while the statements of a dump are piped to psql its table is there
\* without primary key constraint and indexes and holds the rows of this
\* dump only, none before the first statement; the constraint and the
\* indexes are created only after psql has exited with return code 0; and
\* when _import_sql_dump has run to its end the indexes are there, whether
\* the constraint was created or its IntegrityError was logged.
C22_TableOperationsAroundLoad ==
    /\ imp_pc \in {"piping", "exited"} =>
        (/\ DumpTable.present
         /\ ~DumpTable.pkey
         /\ ~DumpTable.indexes
         /\ DumpTable.rows = piped)
    /\ (opened /\ (DumpTable.pkey \/ DumpTable.indexes)) =>
        (returncode = 0 /\ imp_pc \in {"pkey", "loop", "returned"})
    /\ (opened /\ imp_pc \in {"loop", "returned"}) =>
        (/\ DumpTable.indexes
         /\ ~DumpTable.pkey => PkeyError(dump) \in Range(log))

\* d/de/dewiki-20091023-redirect.sql.gz loaded with reimport on: the
\* constraint could not be created, which is logged, and the indexes are there
C22_Witness ==
    /\ imp_pc = "loop"
    /\ reimport
    /\ opened
    /\ piped = MaxDumpStmts
    /\ processed = <<FileDeNew>>
    /\ ~DumpTable.pkey
    /\ DumpTable.indexes
    /\ DumpTable.source = FileDeNew
    /\ Len(log) = 1

===========================================================================
